---------------------------- MODULE Spec2Model ----------------------------
(***************************************************************************)
(* Model of the request-classification middleware                          *)
(* src/src/server/middleware/antiBot.js: fingerprinting, environment       *)
(* scoring, the per-fingerprint behaviour cache, behaviour analysis and    *)
(* the verdict of detectBot.  antiBot.js calls three things it does not    *)
(* define itself (BehaviorAnalysis.analyzeHeaderConsistency,               *)
(* BehaviorAnalysis.calculateBehaviorScore and the periodic cache          *)
(* cleanup); they are taken from the sibling copy of the module,           *)
(* src/unnamed/part_001, which defines them.                               *)
(*                                                                         *)
(* JavaScript strings are sequences of one-character strings, so that      *)
(* String.includes, toLowerCase, join and the regular expressions are      *)
(* computed and not assumed.  `undefined' is the one-element sequence      *)
(* Undefined, which no string equals.  Numbers that are fractions in the   *)
(* code (factors, confidence, score) are exact rationals <<num, den>>.     *)
(* detectBot contains no await, so on the single JavaScript thread every   *)
(* call and every timer callback runs to completion: one action each.      *)
(*                                                                         *)
(* The browser's socket client (src/unnamed/part_000) is modelled next to  *)
(* it: its handlers are one action each, and emitPageChange, which awaits, *)
(* is one action up to its first await and one after its awaits.           *)
(***************************************************************************)
EXTENDS Integers, Sequences, FiniteSets, TLC

VARIABLES now, behaviorCache, legitimateClients, last

\* The browser's socket client (src/unnamed/part_000): its two flags,
\* socket.connected, whether the heartbeat interval is set, the calls of
\* emitPageChange that are waiting at an await, the timeouts that will emit
\* page_loading, the timeout of the forced redirect, the address
\* window.location.href was set to (the page is left then), and the events
\* the handler that ran last passed to socket.emit.
VARIABLES isForceDisconnected, reconnectDisabled, connected, heartbeatInterval,
          pending, loadingTimers, redirectTimer, href, sent

serverVars == <<now, behaviorCache, legitimateClients, last>>

clientVars == <<isForceDisconnected, reconnectDisabled, connected, heartbeatInterval,
                pending, loadingTimers, redirectTimer, href, sent>>

vars == <<now, behaviorCache, legitimateClients, last,
          isForceDisconnected, reconnectDisabled, connected, heartbeatInterval,
          pending, loadingTimers, redirectTimer, href, sent>>

(***************************************************************************)
(* Strings                                                                 *)
(***************************************************************************)
Undefined == <<"undefined">>

\* JavaScript truthiness of a header value: neither undefined nor ''.
Truthy(v) == v # Undefined /\ v # <<>>

UpperAlphabet == <<"A","B","C","D","E","F","G","H","I","J","K","L","M","N","O","P","Q","R","S","T","U","V","W","X","Y","Z">>

LowerAlphabet == <<"a","b","c","d","e","f","g","h","i","j","k","l","m","n","o","p","q","r","s","t","u","v","w","x","y","z">>

LowerChar(c) ==
    IF \E k \in 1..26 : UpperAlphabet[k] = c
    THEN LowerAlphabet[CHOOSE k \in 1..26 : UpperAlphabet[k] = c]
    ELSE c

\* String.prototype.toLowerCase
ToLowerCase(s) == [i \in 1..Len(s) |-> LowerChar(s[i])]

\* sub occurs in s at position i
At(s, sub, i) ==
    /\ i >= 1
    /\ i + Len(sub) - 1 <= Len(s)
    /\ \A k \in 1..Len(sub) : s[i + k - 1] = sub[k]

\* String.prototype.includes
Includes(s, sub) == \E i \in 1..(Len(s) + 1) : At(s, sub, i)

Digits == {"0","1","2","3","4","5","6","7","8","9"}

\* the regular expression  lit[cls]+  tested anywhere in s
MatchLitClass(s, lit, cls) ==
    \E i \in 1..Len(s) :
        /\ At(s, lit, i)
        /\ i + Len(lit) <= Len(s)
        /\ s[i + Len(lit)] \in cls

\* the regular expression  lit1.*lit2[cls]+  tested anywhere in s
MatchLitAnyLitClass(s, lit1, lit2, cls) ==
    \E i \in 1..Len(s) :
        /\ At(s, lit1, i)
        /\ \E j \in (i + Len(lit1))..Len(s) :
              /\ At(s, lit2, j)
              /\ j + Len(lit2) <= Len(s)
              /\ s[j + Len(lit2)] \in cls

\* Array.prototype.join over strings
RECURSIVE Join(_, _)
Join(parts, sep) ==
    IF Len(parts) = 0 THEN <<>>
    ELSE IF Len(parts) = 1 THEN parts[1]
    ELSE parts[1] \o sep \o Join(Tail(parts), sep)

\* Array.prototype.filter(Boolean) over header values
RECURSIVE FilterBoolean(_)
FilterBoolean(vals) ==
    IF Len(vals) = 0 THEN <<>>
    ELSE IF Truthy(vals[1]) THEN <<vals[1]>> \o FilterBoolean(Tail(vals))
    ELSE FilterBoolean(Tail(vals))

(***************************************************************************)
(* Timing constants                                                        *)
(***************************************************************************)
PATTERN_MEMORY == 5 * 60 * 1000

(***************************************************************************)
(* BrowserVerification                                                     *)
(***************************************************************************)
HeaderNames ==
    {"user-agent", "accept", "accept-language", "accept-encoding",
     "connection", "upgrade-insecure-requests", "viewport-width",
     "sec-ch-ua-full-version-list", "sec-ch-ua-platform-version",
     "sec-ch-ua", "sec-ch-ua-platform", "sec-ch-ua-mobile",
     "sec-fetch-site", "sec-fetch-mode", "sec-fetch-dest", "cache-control"}

\* generateFingerprint with the request path among the components
generateFingerprintWithPath(req) ==
    Join(FilterBoolean(<<
            req.headers["user-agent"],
            req.headers["accept"],
            req.headers["accept-language"],
            req.headers["accept-encoding"],
            req.headers["connection"],
            req.headers["upgrade-insecure-requests"],
            req.headers["viewport-width"],
            req.headers["sec-ch-ua-full-version-list"],
            req.headers["sec-ch-ua-platform-version"],
            req.ip,
            req.path >>), <<":","|",":">>)

\* generateFingerprint dropping only the absent components, not the empty
generateFingerprintKeepingEmpty(req) ==
    Join(SelectSeq(<<
            req.headers["user-agent"],
            req.headers["accept"],
            req.headers["accept-language"],
            req.headers["accept-encoding"],
            req.headers["connection"],
            req.headers["upgrade-insecure-requests"],
            req.headers["viewport-width"],
            req.headers["sec-ch-ua-full-version-list"],
            req.headers["sec-ch-ua-platform-version"],
            req.ip >>, LAMBDA v : v # Undefined), <<":","|",":">>)

\* generateFingerprint with accept-language left out of the components
generateFingerprintWithoutLanguage(req) ==
    LET components == FilterBoolean(<<
            req.headers["user-agent"],
            req.headers["accept"],
            req.headers["accept-encoding"],
            req.headers["connection"],
            req.headers["upgrade-insecure-requests"],
            req.headers["viewport-width"],
            req.headers["sec-ch-ua-full-version-list"],
            req.headers["sec-ch-ua-platform-version"],
            req.ip >>)
    IN  Join(components, <<":","|",":">>)

\* The SHA-256 hex digest is modelled by its preimage: the digest is taken
\* to be injective on the joined component string.
generateFingerprint(req) ==
    LET components == FilterBoolean(<<
            req.headers["user-agent"],
            req.headers["accept"],
            req.headers["accept-language"],
            req.headers["accept-encoding"],
            req.headers["connection"],
            req.headers["upgrade-insecure-requests"],
            req.headers["viewport-width"],
            req.headers["sec-ch-ua-full-version-list"],
            req.headers["sec-ch-ua-platform-version"],
            req.ip >>)
    IN  Join(components, <<":","|",":">>)

\* calculateHeaderScore taking points off for an accept header
calculateHeaderScorePenalisingAccept(headers) ==
      (IF Truthy(headers["user-agent"]) THEN 20 ELSE 0)
    - (IF Truthy(headers["accept"]) THEN 10 ELSE 0)
    + (IF Truthy(headers["accept-language"]) THEN 10 ELSE 0)
    + (IF Truthy(headers["accept-encoding"]) THEN 10 ELSE 0)
    + (IF Truthy(headers["sec-fetch-site"]) THEN 5 ELSE 0)
    + (IF Truthy(headers["sec-fetch-mode"]) THEN 5 ELSE 0)
    + (IF Truthy(headers["sec-fetch-dest"]) THEN 5 ELSE 0)

calculateHeaderScore(headers) ==
      (IF Truthy(headers["user-agent"]) THEN 20 ELSE 0)
    + (IF Truthy(headers["accept"]) THEN 10 ELSE 0)
    + (IF Truthy(headers["accept-language"]) THEN 10 ELSE 0)
    + (IF Truthy(headers["accept-encoding"]) THEN 10 ELSE 0)
    + (IF Truthy(headers["sec-fetch-site"]) THEN 5 ELSE 0)
    + (IF Truthy(headers["sec-fetch-mode"]) THEN 5 ELSE 0)
    + (IF Truthy(headers["sec-fetch-dest"]) THEN 5 ELSE 0)

botIndicators ==
    << <<"s","e","l","e","n","i","u","m">>,
       <<"w","e","b","d","r","i","v","e","r">>,
       <<"h","e","a","d","l","e","s","s">>,
       <<"p","h","a","n","t","o","m">>,
       <<"p","u","p","p","e","t","e","e","r">>,
       <<"p","l","a","y","w","r","i","g","h","t">>,
       <<"c","y","p","r","e","s","s">>,
       <<"a","u","t","o","m","a","t","i","o","n">>,
       <<"m","e","t","a","m","a","s","k">>,
       <<"b","o","t">>,
       <<"c","r","a","w","l","e","r">>,
       <<"s","p","i","d","e","r">>
    >>

validateSpecialHeaders(headers) ==
    LET userAgent == IF Truthy(headers["user-agent"])
                     THEN ToLowerCase(headers["user-agent"]) ELSE <<>>
        hits == Cardinality({k \in 1..Len(botIndicators) :
                                Includes(userAgent, botIndicators[k])})
        engine ==
            IF Truthy(headers["sec-ch-ua"])
            THEN LET ua == ToLowerCase(headers["sec-ch-ua"])
                 IN  IF /\ Includes(ua, <<"\"","c","h","r","o","m","i","u","m","\"">>)
                        /\ ~Includes(ToLowerCase(userAgent), <<"c","h","r","o","m","e">>)
                     THEN -30 ELSE 0
            ELSE 0
    IN  (0 - 50 * hits) + engine

\* analyzeUserAgent without the penalty for a missing user-agent
analyzeUserAgentLenient(ua) ==
    IF ~Truthy(ua) THEN 0 ELSE 10

analyzeUserAgent(ua) ==
    IF ~Truthy(ua) THEN -50
    ELSE
    LET lowerUA == ToLowerCase(ua)
        dotted == Digits \cup {"."}
        under  == Digits \cup {".", "_"}
        browser ==
            \/ MatchLitClass(lowerUA, <<"c","h","r","o","m","e","/">>, dotted)
            \/ MatchLitClass(lowerUA, <<"f","i","r","e","f","o","x","/">>, dotted)
            \/ MatchLitClass(lowerUA, <<"s","a","f","a","r","i","/">>, dotted)
            \/ MatchLitClass(lowerUA, <<"e","d","g","/">>, dotted)
            \/ MatchLitClass(lowerUA, <<"e","d","g","e","/">>, dotted)
            \/ MatchLitClass(lowerUA, <<"o","p","r","/">>, dotted)
        os ==
            \/ MatchLitClass(lowerUA, <<"w","i","n","d","o","w","s"," ","n","t"," ">>, dotted)
            \/ MatchLitAnyLitClass(lowerUA, <<"m","a","c","i","n","t","o","s","h">>,
                                   <<"m","a","c"," ","o","s"," ","x"," ">>, under)
            \/ MatchLitClass(lowerUA, <<"i","p","h","o","n","e"," ","o","s"," ">>, under)
            \/ MatchLitClass(lowerUA, <<"a","n","d","r","o","i","d"," ">>, dotted)
            \/ Includes(lowerUA, <<"l","i","n","u","x">>)
        \* /(\d+\.)+\d+/ matches exactly when a digit, a dot and a digit are adjacent
        version == \E i \in 1..Len(ua) :
                      /\ i + 2 <= Len(ua)
                      /\ ua[i] \in Digits /\ ua[i + 1] = "." /\ ua[i + 2] \in Digits
    IN    (IF browser THEN 15 ELSE 0)
        + (IF os THEN 15 ELSE 0)
        + (IF version THEN 10 ELSE 0)

checkConsistency(headers) ==
    LET platformScore ==
            IF Truthy(headers["sec-ch-ua-platform"]) /\ Truthy(headers["user-agent"])
            THEN LET platform == ToLowerCase(headers["sec-ch-ua-platform"])
                     ua == ToLowerCase(headers["user-agent"])
                 IN    (IF Includes(platform, <<"w","i","n","d","o","w","s">>)
                           /\ Includes(ua, <<"w","i","n","d","o","w","s">>) THEN 10 ELSE 0)
                     + (IF Includes(platform, <<"m","a","c">>)
                           /\ Includes(ua, <<"m","a","c","i","n","t","o","s","h">>) THEN 10 ELSE 0)
                     + (IF Includes(platform, <<"a","n","d","r","o","i","d">>)
                           /\ Includes(ua, <<"a","n","d","r","o","i","d">>) THEN 10 ELSE 0)
                     + (IF Includes(platform, <<"i","o","s">>)
                           /\ Includes(ua, <<"i","p","h","o","n","e">>) THEN 10 ELSE 0)
            ELSE 0
        mobileScore ==
            IF Truthy(headers["sec-ch-ua-mobile"])
            THEN LET isMobile == (headers["sec-ch-ua-mobile"] = <<"?","1">>)
                     ua == IF Truthy(headers["user-agent"])
                           THEN ToLowerCase(headers["user-agent"]) ELSE <<>>
                     uaIndicatesMobile ==
                         \/ Includes(ua, <<"m","o","b","i","l","e">>)
                         \/ Includes(ua, <<"a","n","d","r","o","i","d">>)
                         \/ Includes(ua, <<"i","p","h","o","n","e">>)
                         \/ Includes(ua, <<"i","p","a","d">>)
                         \/ Includes(ua, <<"i","p","o","d">>)
                 IN  IF isMobile = uaIndicatesMobile THEN 10 ELSE 0
            ELSE 0
    IN  platformScore + mobileScore

validateBrowserEnvironment(req) ==
    LET score ==   calculateHeaderScore(req.headers)
                 + analyzeUserAgent(req.headers["user-agent"])
                 + checkConsistency(req.headers)
                 + validateSpecialHeaders(req.headers)
    IN  [valid |-> score >= 40, score |-> score, maxScore |-> 100]


(***************************************************************************)
(* Exact fractions                                                         *)
(***************************************************************************)
RECURSIVE GCD(_, _)
GCD(a, b) == IF b = 0 THEN a ELSE GCD(b, a % b)

\* the fraction n/d (d > 0) in lowest terms
Q(n, d) ==
    LET g == GCD(IF n < 0 THEN 0 - n ELSE n, d)
    IN  <<n \div g, d \div g>>

QAdd(a, b) == Q(a[1] * b[2] + b[1] * a[2], a[2] * b[2])

QMul(a, b) == Q(a[1] * b[1], a[2] * b[2])

QLess(a, b) == a[1] * b[2] < b[1] * a[2]

QLeq(a, b) == a[1] * b[2] <= b[1] * a[2]

\* a value the code never computed (the call threw first)
NotComputed == <<>>

(***************************************************************************)
(* BehaviorAnalysis                                                        *)
(***************************************************************************)
getRelevantHeaders(headers) ==
    [encoding   |-> headers["accept-encoding"],
     language   |-> headers["accept-language"],
     cache      |-> headers["cache-control"],
     connection |-> headers["connection"],
     platform   |-> headers["sec-ch-ua-platform"]]

RECURSIVE SumSeq(_)
SumSeq(s) == IF Len(s) = 0 THEN 0 ELSE s[1] + SumSeq(Tail(s))

\* analyzeTimingPatterns looking at the speed only
analyzeTimingPatternsSpeedOnly(patterns) ==
    IF \E i \in 1..(Len(patterns) - 1) :
           patterns[i + 1].timestamp - patterns[i].timestamp < 50
    THEN Q(0, 1) ELSE Q(1, 1)

\* analyzeTimingPatterns dividing the squared deviations by n - 1: a single
\* interval has no deviation to compare, and is not regular
analyzeTimingPatternsSampleDeviation(patterns) ==
    LET intervals == [i \in 1..(Len(patterns) - 1) |->
                          patterns[i + 1].timestamp - patterns[i].timestamp]
        n  == Len(intervals)
        isRegular ==
            /\ n > 1
            /\ n * SumSeq([i \in 1..n |-> intervals[i] * intervals[i]])
                   - SumSeq(intervals) * SumSeq(intervals)
                   < 10000 * n * (n - 1)
        hasTooFast == \E i \in 1..n : intervals[i] < 50
    IN  IF n = 0 THEN Q(1, 1)
        ELSE IF isRegular /\ hasTooFast THEN Q(0, 1)
        ELSE IF isRegular THEN Q(3, 10)
        ELSE IF hasTooFast THEN Q(5, 10)
        ELSE Q(1, 1)

\* stdDev < 100 is variance < 10000; the variance does not change when the
\* smallest interval is subtracted from every interval, and it is at least
\* range^2 / (2n), so a range of 200n or more already rules "regular" out.
\* The remaining test is n * sum(d^2) - sum(d)^2 < 10000 * n^2.
analyzeTimingPatterns(patterns) ==
    LET intervals == [i \in 1..(Len(patterns) - 1) |->
                          patterns[i + 1].timestamp - patterns[i].timestamp]
        n  == Len(intervals)
        lo == CHOOSE x \in {intervals[i] : i \in 1..n} :
                  \A i \in 1..n : x <= intervals[i]
        d  == [i \in 1..n |-> intervals[i] - lo]
        range == CHOOSE x \in {d[i] : i \in 1..n} : \A i \in 1..n : d[i] <= x
        isRegular ==
            /\ range < 200 * n
            /\ n * SumSeq([i \in 1..n |-> d[i] * d[i]]) - SumSeq(d) * SumSeq(d)
                   < 10000 * n * n
        hasTooFast == \E i \in 1..n : intervals[i] < 50
    IN  IF n = 0 THEN Q(1, 1)
        ELSE IF isRegular /\ hasTooFast THEN Q(0, 1)
        ELSE IF isRegular THEN Q(3, 10)
        ELSE IF hasTooFast THEN Q(5, 10)
        ELSE Q(1, 1)

calculateRepetition(paths) ==
    IF Len(paths) < 3 THEN Q(0, 1)
    ELSE LET repetitions == Cardinality({i \in 3..Len(paths) :
                                paths[i] = paths[i - 1] /\ paths[i - 1] = paths[i - 2]})
         IN  IF repetitions >= Len(paths) - 2 THEN Q(1, 1)
             ELSE Q(repetitions, Len(paths) - 2)

validFlows ==
    << << <<"/">> >>,
       << <<"/">>, <<"/","c","h","e","c","k","-","i","p">> >>,
       << <<"/","c","h","e","c","k","-","i","p">>, <<"/","l","o","a","d","i","n","g">> >>,
       << <<"/","l","o","a","d","i","n","g">>, <<"/","r","e","v","i","e","w">> >>,
       << <<"/","r","e","v","i","e","w">>, <<"/","c","o","m","p","l","e","t","e">> >>
    >>

\* validFlows.some(flow => flow[0].includes(prev) && flow[1].includes(curr)),
\* flows tried in order from the k-th; flow[1] of the one-element flow is
\* undefined, and calling includes on it throws a TypeError.
RECURSIVE someFlow(_, _, _)
someFlow(prev, curr, k) ==
    IF k > Len(validFlows) THEN "false"
    ELSE LET flow == validFlows[k]
         IN  IF Includes(flow[1], prev)
             THEN IF Len(flow) < 2 THEN "throw"
                  ELSE IF Includes(flow[2], curr) THEN "true"
                  ELSE someFlow(prev, curr, k + 1)
             ELSE someFlow(prev, curr, k + 1)

\* the loop of hasLogicalFlow from index i (1-based: pairs (i-1, i))
RECURSIVE flowFrom(_, _)
flowFrom(paths, i) ==
    IF i > Len(paths) THEN "true"
    ELSE LET r == someFlow(paths[i - 1], paths[i], 1)
         IN  IF r = "true" THEN flowFrom(paths, i + 1) ELSE r

\* "true", "false", or "throw" when the TypeError escapes
hasLogicalFlow(paths) == flowFrom(paths, 2)

\* the navigation factor, or NotComputed when hasLogicalFlow throws
analyzeNavigationPatterns(patterns) ==
    LET paths == [i \in 1..Len(patterns) |-> patterns[i].path]
        repetition == calculateRepetition(paths)
        score == QAdd(Q(1, 1), Q(0 - repetition[1], repetition[2]))
        flow == hasLogicalFlow(paths)
    IN  IF flow = "throw" THEN NotComputed
        ELSE IF flow = "false" THEN QMul(score, Q(7, 10))
        ELSE score

RECURSIVE consistencyFrom(_, _)
consistencyFrom(headerSets, i) ==
    IF i > Len(headerSets) THEN Q(1, 1)
    ELSE LET prev == headerSets[i - 1]
             curr == headerSets[i]
             a == IF prev.language # curr.language THEN Q(8, 10) ELSE Q(1, 1)
             b == IF prev.encoding # curr.encoding THEN Q(8, 10) ELSE Q(1, 1)
         IN  QMul(QMul(a, b), consistencyFrom(headerSets, i + 1))

analyzeHeaderConsistency(patterns) ==
    consistencyFrom([i \in 1..Len(patterns) |-> patterns[i].headers], 2)

\* calculateSuspiciousScore with the threshold itself counted as low
calculateSuspiciousScoreInclusive(timing, navigation, headers) ==
      (IF QLeq(timing, Q(3, 10)) THEN 1 ELSE 0)
    + (IF QLeq(navigation, Q(3, 10)) THEN 1 ELSE 0)
    + (IF QLeq(headers, Q(3, 10)) THEN 1 ELSE 0)

calculateSuspiciousScore(timing, navigation, headers) ==
      (IF QLess(timing, Q(3, 10)) THEN 1 ELSE 0)
    + (IF QLess(navigation, Q(3, 10)) THEN 1 ELSE 0)
    + (IF QLess(headers, Q(3, 10)) THEN 1 ELSE 0)

\* analyzeBehaviorPatterns with 0.5 as the answer for a short history
analyzeBehaviorPatternsHalf(patterns) ==
    [threw |-> FALSE, confidence |-> Q(5, 10), suspicious |-> 0,
     details |-> [timing |-> Q(1, 1), navigation |-> Q(1, 1), headers |-> Q(1, 1)]]

\* the weighting of the three factors; threw = TRUE stands for the
\* exception of hasLogicalFlow leaving analyzeBehaviorPatterns
weighted(timing, navigation, headers) ==
    IF navigation = NotComputed
    THEN [threw |-> TRUE, confidence |-> NotComputed, suspicious |-> 0,
          details |-> [timing |-> timing, navigation |-> NotComputed,
                       headers |-> NotComputed]]
    ELSE [threw |-> FALSE,
          confidence |-> QAdd(QAdd(QMul(timing, Q(3, 10)),
                                   QMul(navigation, Q(4, 10))),
                              QMul(headers, Q(3, 10))),
          suspicious |-> calculateSuspiciousScore(timing, navigation, headers),
          details |-> [timing |-> timing, navigation |-> navigation,
                       headers |-> headers]]

analyzeBehaviorPatterns(patterns) ==
    IF Len(patterns) < 2
    THEN [threw |-> FALSE, confidence |-> Q(7, 10), suspicious |-> 0,
          details |-> [timing |-> Q(1, 1), navigation |-> Q(1, 1), headers |-> Q(1, 1)]]
    ELSE weighted(analyzeTimingPatterns(patterns),
                  analyzeNavigationPatterns(patterns),
                  analyzeHeaderConsistency(patterns))

\* calculateBehaviorScore giving the confidence itself
calculateBehaviorScoreUnscaled(analysis) == analysis.confidence

calculateBehaviorScore(analysis) == QMul(analysis.confidence, Q(100, 1))

\* the filter keeping an event that is exactly PATTERN_MEMORY old
windowedInclusive(patterns, t) ==
    SelectSeq(patterns, LAMBDA p : t - p.timestamp <= PATTERN_MEMORY)

\* clientData.patterns after the push and the filter of analyze at time t
windowed(patterns, t) ==
    SelectSeq(patterns, LAMBDA p : t - p.timestamp < PATTERN_MEMORY)

(***************************************************************************)
(* Bounds and the requests the environment sends                           *)
(***************************************************************************)
\* the clock stops at MaxMinutes minutes after module load
MaxMinutes == 6

\* events the cache may hold; a request that would leave more is cut off
MaxEvents == 2

\* milliseconds by which the clock advances between two handlers; handlers
\* between two advances read the same millisecond
Deltas == {2 * 60 * 1000, 3 * 60 * 1000}

\* Request objects.  Fresh is an object created for one call and released
\* after it, as a server does for every HTTP request: a WeakSet entry for
\* it can never be looked up again.  The caller keeps the objects in
\* HeldObjects and may pass them to detectBot again, with other contents.
Fresh == "fresh"

HeldObjects == {"held"}

ReqObjects == {Fresh} \cup HeldObjects

\* a header object: the given headers, every other header undefined
RECURSIVE Headers(_)
Headers(given) ==
    LET missing == HeaderNames \ DOMAIN given
    IN  IF missing = {} THEN given
        ELSE Headers(given @@ ((CHOOSE n \in missing : TRUE) :> Undefined))

\* a desktop Chrome: environment score 125
BrowserHeaders ==
    Headers(  "user-agent" :> <<"M","o","z","i","l","l","a","/","5",".","0"," ","(","W","i","n","d","o","w","s"," ","N","T"," ","1","0",".","0",")"," ","C","h","r","o","m","e","/","1","2","0",".","0">>
           @@ "accept" :> <<"*","/","*">>
           @@ "accept-language" :> <<"e","n">>
           @@ "accept-encoding" :> <<"g","z","i","p">>
           @@ "sec-ch-ua" :> <<"\"","C","h","r","o","m","i","u","m","\"",";","v","=","\"","1","2","0","\"">>
           @@ "sec-ch-ua-platform" :> <<"\"","W","i","n","d","o","w","s","\"">>
           @@ "sec-ch-ua-mobile" :> <<"?","0">>
           @@ "sec-fetch-site" :> <<"n","o","n","e">>
           @@ "sec-fetch-mode" :> <<"n","a","v","i","g","a","t","e">>
           @@ "sec-fetch-dest" :> <<"d","o","c","u","m","e","n","t">>)

\* every scored header except user-agent and the client hints: score -5
NoUserAgentHeaders ==
    Headers(  "accept" :> <<"*","/","*">>
           @@ "accept-language" :> <<"e","n">>
           @@ "accept-encoding" :> <<"g","z","i","p">>
           @@ "connection" :> <<"c","l","o","s","e">>
           @@ "sec-fetch-site" :> <<"n","o","n","e">>
           @@ "sec-fetch-mode" :> <<"n","a","v","i","g","a","t","e">>
           @@ "sec-fetch-dest" :> <<"d","o","c","u","m","e","n","t">>)

\* an unknown client that names itself: score 30
PlainHeaders ==
    Headers(  "user-agent" :> <<"u","a">>
           @@ "accept" :> <<"*","/","*">>)

Request(headers, path) ==
    [headers |-> headers, path |-> path, method |-> "GET",
     ip |-> <<"1","0",".","0",".","0",".","1">>]

\* the requests the environment sends, by number
Requests ==
    << Request(BrowserHeaders, <<"/">>),
       Request(BrowserHeaders, <<"/","c","h","e","c","k","-","i","p">>),
       Request(BrowserHeaders, <<"/","l","o","a","d","i","n","g">>),
       Request(PlainHeaders, <<"/","l","o","a","d","i","n","g">>),
       Request(NoUserAgentHeaders, <<"/">>) >>

\* generateFingerprint and validateBrowserEnvironment are functions of the
\* request alone; they are tabulated once for the requests above.
RECURSIVE fingerprintsFrom(_)
fingerprintsFrom(i) ==
    IF i > Len(Requests) THEN <<>>
    ELSE <<generateFingerprint(Requests[i])>> \o fingerprintsFrom(i + 1)

fingerprintOf == fingerprintsFrom(1)

RECURSIVE browserChecksFrom(_)
browserChecksFrom(i) ==
    IF i > Len(Requests) THEN <<>>
    ELSE <<validateBrowserEnvironment(Requests[i])>> \o browserChecksFrom(i + 1)

browserCheckOf == browserChecksFrom(1)

(***************************************************************************)
(* State                                                                   *)
(***************************************************************************)
NoAnalysis ==
    [threw |-> FALSE, confidence |-> NotComputed, suspicious |-> 0,
     details |-> [timing |-> NotComputed, navigation |-> NotComputed,
                  headers |-> NotComputed]]

\* What the last handler did: the request object and request it was called
\* with, whether the object was marked and the fingerprint had a profile
\* (and its events) when it started, the environment score, the events
\* handed to the analyzer and its analysis, the return statement taken
\* (exit) and the verdict returned; for the cleanup, the profiles removed.
Idle(op, t) ==
    [op |-> op, at |-> t, obj |-> Fresh, req |-> 0, fingerprint |-> NotComputed,
     marked |-> FALSE, hadProfile |-> FALSE, before |-> <<>>, score |-> 0,
     exit |-> "none", seen |-> NotComputed, analysis |-> NoAnalysis,
     verdict |-> NotComputed, removed |-> {}]

\* the socket client after its script has run: the flags are false, the
\* socket is still connecting and the heartbeat interval is set
ClientInit ==
    /\ isForceDisconnected = FALSE
    /\ reconnectDisabled = FALSE
    /\ connected = FALSE
    /\ heartbeatInterval = TRUE
    /\ pending = 0
    /\ loadingTimers = 0
    /\ redirectTimer = FALSE
    /\ href = <<>>
    /\ sent = <<>>

\* The clock counts milliseconds from module load.
Init ==
    /\ now = 0
    /\ behaviorCache = << >>
    /\ legitimateClients = {}
    /\ last = Idle("load", 0)
    /\ ClientInit

Has(cache, fingerprint) == fingerprint \in DOMAIN cache

Put(cache, fingerprint, clientData) ==
    [f \in DOMAIN cache \cup {fingerprint} |->
        IF f = fingerprint THEN clientData ELSE cache[f]]

\* time passes between two handlers
Tick(d) ==
    /\ now + d <= MaxMinutes * 60 * 1000
    /\ now' = now + d
    /\ last' = Idle("tick", now')
    /\ UNCHANGED <<behaviorCache, legitimateClients>>
    /\ UNCHANGED clientVars

(***************************************************************************)
(* BehaviorAnalysis.analyze and detectBot                                  *)
(***************************************************************************)
\* the events handed to the analyzer, with its answer
analysisOf(patterns) ==
    [seen |-> patterns, analysis |-> analyzeBehaviorPatterns(patterns)]

\* the event analyze pushes
Pattern(req, t) ==
    [timestamp |-> t, path |-> req.path, method |-> req.method,
     headers |-> getRelevantHeaders(req.headers)]

\* analyze handing the analyzer the events as pushed, filtering afterwards
analyzeUnpruned(cache, req, fingerprint, t) ==
    LET existed == fingerprint \in DOMAIN cache
        old == IF existed THEN cache[fingerprint].patterns ELSE <<>>
        pushed == Append(old, Pattern(req, t))
        analysis == analyzeBehaviorPatterns(pushed)
    IN  [seen |-> pushed,
         analysis |-> analysis,
         cache |-> [f \in DOMAIN cache \cup {fingerprint} |->
                      IF f = fingerprint
                      THEN [patterns |-> windowed(pushed, t), lastSeen |-> t,
                            score |-> IF analysis.threw THEN Q(0, 1)
                                      ELSE calculateBehaviorScore(analysis),
                            suspicious |-> analysis.suspicious]
                      ELSE cache[f]]]

\* analyze starting from a new profile whatever the cache holds
getNew(cache, fingerprint, t) ==
    [patterns |-> <<>>, lastSeen |-> t, score |-> Q(0, 1), suspicious |-> 0]

\* behaviorCache.get(fingerprint) || { a new profile }
get(cache, fingerprint, t) ==
    IF Has(cache, fingerprint) THEN cache[fingerprint]
    ELSE [patterns |-> <<>>, lastSeen |-> t, score |-> Q(0, 1), suspicious |-> 0]

\* record putting the new event in front of the stored ones
recordInFront(stored, pattern, t) ==
    analysisOf(windowed(<<pattern>> \o stored, t))

\* the push and the filter, then the analysis of what they leave
record(stored, pattern, t) ==
    analysisOf(windowed(Append(stored, pattern), t))

\* the rest of analyze: the profile is updated and stored when the analyzer
\* returned; when it threw, only the patterns of a profile that was already
\* in the cache have changed
update(cache, fingerprint, t, a) ==
    [seen |-> a.seen,
     analysis |-> a.analysis,
     cache |->
        IF a.analysis.threw
        THEN IF Has(cache, fingerprint)
             THEN Put(cache, fingerprint,
                      [cache[fingerprint] EXCEPT !.patterns = a.seen])
             ELSE cache
        ELSE Put(cache, fingerprint,
                 [patterns |-> a.seen,
                  lastSeen |-> t,
                  score |-> calculateBehaviorScore(a.analysis),
                  suspicious |-> a.analysis.suspicious])]

\* BehaviorAnalysis.analyze(req, fingerprint) at clock reading t on cache:
\* the patterns handed to the analyzer, the analysis, and the cache it
\* leaves.  When the analyzer throws, the push and the filter have already
\* changed the cached object of an existing profile, and nothing else has.
analyze(cache, req, fingerprint, t) ==
    update(cache, fingerprint, t,
           record(get(cache, fingerprint, t).patterns, Pattern(req, t), t))

\* detectBot(req) for the request object obj holding request number i, at
\* clock reading t
started(cache, legit, obj, i, t) ==
    [Idle("detectBot", t) EXCEPT
        !.obj = obj, !.req = i, !.fingerprint = fingerprintOf[i],
        !.marked = (obj \in legit),
        !.hadProfile = Has(cache, fingerprintOf[i]),
        !.before = IF Has(cache, fingerprintOf[i])
                   THEN cache[fingerprintOf[i]].patterns ELSE <<>>]

\* decide with one low factor enough for suspicious_behavior
decideOnOneFactor(legit, obj, fingerprint, score, behavior, run) ==
    IF behavior.analysis.threw
    THEN [cache |-> behavior.cache, legit |-> legit,
          last |-> [run EXCEPT !.exit = "throw"]]
    ELSE IF QLess(behavior.analysis.confidence, Q(4, 10))
            /\ behavior.analysis.suspicious > 0
    THEN [cache |-> behavior.cache, legit |-> legit,
          last |-> [run EXCEPT !.exit = "behavior",
               !.verdict = [isBot |-> TRUE, confidence |-> Q(85, 100),
                            reason |-> "suspicious_behavior",
                            fingerprint |-> Undefined]]]
    ELSE IF score >= 40 /\ QLeq(Q(4, 10), behavior.analysis.confidence)
    THEN [cache |-> behavior.cache, legit |-> legit \cup ({obj} \cap HeldObjects),
          last |-> [run EXCEPT !.exit = "pass",
               !.verdict = [isBot |-> FALSE,
                            confidence |-> behavior.analysis.confidence,
                            reason |-> Undefined, fingerprint |-> fingerprint]]]
    ELSE [cache |-> behavior.cache, legit |-> legit,
          last |-> [run EXCEPT !.exit = "combined",
               !.verdict = [isBot |-> TRUE, confidence |-> Q(6, 10),
                            reason |-> "combined_factors",
                            fingerprint |-> Undefined]]]

\* decide admitting from the hard-fail bar 20 on
decideLowBar(legit, obj, fingerprint, score, behavior, run) ==
    IF behavior.analysis.threw
    THEN [cache |-> behavior.cache, legit |-> legit,
          last |-> [run EXCEPT !.exit = "throw"]]
    ELSE IF QLess(behavior.analysis.confidence, Q(4, 10))
            /\ behavior.analysis.suspicious > 1
    THEN [cache |-> behavior.cache, legit |-> legit,
          last |-> [run EXCEPT !.exit = "behavior",
               !.verdict = [isBot |-> TRUE, confidence |-> Q(85, 100),
                            reason |-> "suspicious_behavior",
                            fingerprint |-> Undefined]]]
    ELSE IF score >= 20 /\ QLeq(Q(4, 10), behavior.analysis.confidence)
    THEN [cache |-> behavior.cache, legit |-> legit \cup ({obj} \cap HeldObjects),
          last |-> [run EXCEPT !.exit = "pass",
               !.verdict = [isBot |-> FALSE,
                            confidence |-> behavior.analysis.confidence,
                            reason |-> Undefined, fingerprint |-> fingerprint]]]
    ELSE [cache |-> behavior.cache, legit |-> legit,
          last |-> [run EXCEPT !.exit = "combined",
               !.verdict = [isBot |-> TRUE, confidence |-> Q(6, 10),
                            reason |-> "combined_factors",
                            fingerprint |-> Undefined]]]

\* decide rejecting on the suspicion count alone
decideOnCountAlone(legit, obj, fingerprint, score, behavior, run) ==
    IF behavior.analysis.threw
    THEN [cache |-> behavior.cache, legit |-> legit,
          last |-> [run EXCEPT !.exit = "throw"]]
    ELSE IF behavior.analysis.suspicious > 1
    THEN [cache |-> behavior.cache, legit |-> legit,
          last |-> [run EXCEPT !.exit = "behavior",
               !.verdict = [isBot |-> TRUE, confidence |-> Q(85, 100),
                            reason |-> "suspicious_behavior",
                            fingerprint |-> Undefined]]]
    ELSE IF score >= 40 /\ QLeq(Q(4, 10), behavior.analysis.confidence)
    THEN [cache |-> behavior.cache, legit |-> legit \cup ({obj} \cap HeldObjects),
          last |-> [run EXCEPT !.exit = "pass",
               !.verdict = [isBot |-> FALSE,
                            confidence |-> behavior.analysis.confidence,
                            reason |-> Undefined, fingerprint |-> fingerprint]]]
    ELSE [cache |-> behavior.cache, legit |-> legit,
          last |-> [run EXCEPT !.exit = "combined",
               !.verdict = [isBot |-> TRUE, confidence |-> Q(6, 10),
                            reason |-> "combined_factors",
                            fingerprint |-> Undefined]]]

\* the statements of detectBot after BehaviorAnalysis.analyze returned
\* behavior, or threw
decide(legit, obj, fingerprint, score, behavior, run) ==
    IF behavior.analysis.threw
    THEN [cache |-> behavior.cache, legit |-> legit,
          last |-> [run EXCEPT !.exit = "throw"]]
    ELSE IF QLess(behavior.analysis.confidence, Q(4, 10))
            /\ behavior.analysis.suspicious > 1
    THEN [cache |-> behavior.cache, legit |-> legit,
          last |-> [run EXCEPT !.exit = "behavior",
               !.verdict = [isBot |-> TRUE, confidence |-> Q(85, 100),
                            reason |-> "suspicious_behavior",
                            fingerprint |-> Undefined]]]
    ELSE IF score >= 40 /\ QLeq(Q(4, 10), behavior.analysis.confidence)
    THEN [cache |-> behavior.cache, legit |-> legit \cup ({obj} \cap HeldObjects),
          last |-> [run EXCEPT !.exit = "pass",
               !.verdict = [isBot |-> FALSE,
                            confidence |-> behavior.analysis.confidence,
                            reason |-> Undefined, fingerprint |-> fingerprint]]]
    ELSE [cache |-> behavior.cache, legit |-> legit,
          last |-> [run EXCEPT !.exit = "combined",
               !.verdict = [isBot |-> TRUE, confidence |-> Q(6, 10),
                            reason |-> "combined_factors",
                            fingerprint |-> Undefined]]]

\* detectBot checking the environment before the legitimacy mark
detectBotWithEnvironmentFirst(cache, legit, obj, fingerprint, score, behavior, base) ==
    IF score < 20
    THEN [cache |-> cache, legit |-> legit,
          last |-> [base EXCEPT !.exit = "environment",
               !.score = score,
               !.verdict = [isBot |-> TRUE, confidence |-> Q(95, 100),
                            reason |-> "invalid_browser_environment",
                            fingerprint |-> Undefined]]]
    ELSE IF obj \in legit
    THEN [cache |-> cache, legit |-> legit,
          last |-> [base EXCEPT !.exit = "fast",
               !.verdict = [isBot |-> FALSE, confidence |-> Q(1, 1),
                            reason |-> Undefined, fingerprint |-> Undefined]]]
    ELSE decide(legit, obj, fingerprint, score, behavior,
                [base EXCEPT !.score = score,
                             !.seen = behavior.seen,
                             !.analysis = behavior.analysis])

\* detectBot taking the fast path as soon as any request object is marked
detectBotWithAnyMark(cache, legit, obj, fingerprint, score, behavior, base) ==
    IF legit # {}
    THEN [cache |-> cache, legit |-> legit,
          last |-> [base EXCEPT !.exit = "fast",
               !.verdict = [isBot |-> FALSE, confidence |-> Q(1, 1),
                            reason |-> Undefined, fingerprint |-> Undefined]]]
    ELSE IF score < 20
    THEN [cache |-> cache, legit |-> legit,
          last |-> [base EXCEPT !.exit = "environment",
               !.score = score,
               !.verdict = [isBot |-> TRUE, confidence |-> Q(95, 100),
                            reason |-> "invalid_browser_environment",
                            fingerprint |-> Undefined]]]
    ELSE decide(legit, obj, fingerprint, score, behavior,
                [base EXCEPT !.score = score,
                             !.seen = behavior.seen,
                             !.analysis = behavior.analysis])

\* detectBot for a request object obj with token fingerprint and
\* environment score score, behavior being what BehaviorAnalysis.analyze
\* gives when it is reached
detectBotWith(cache, legit, obj, fingerprint, score, behavior, base) ==
    IF obj \in legit
    THEN [cache |-> cache, legit |-> legit,
          last |-> [base EXCEPT !.exit = "fast",
               !.verdict = [isBot |-> FALSE, confidence |-> Q(1, 1),
                            reason |-> Undefined, fingerprint |-> Undefined]]]
    ELSE IF score < 20
    THEN [cache |-> cache, legit |-> legit,
          last |-> [base EXCEPT !.exit = "environment",
               !.score = score,
               !.verdict = [isBot |-> TRUE, confidence |-> Q(95, 100),
                            reason |-> "invalid_browser_environment",
                            fingerprint |-> Undefined]]]
    ELSE decide(legit, obj, fingerprint, score, behavior,
                [base EXCEPT !.score = score,
                             !.seen = behavior.seen,
                             !.analysis = behavior.analysis])

\* detectBot recording the request before any of its checks
screenedAfterRecord(cache, legit, obj, i, t, base) ==
    detectBotWith(analyze(cache, Requests[i], fingerprintOf[i], t).cache,
                  legit, obj, fingerprintOf[i], browserCheckOf[i].score,
                  analyze(cache, Requests[i], fingerprintOf[i], t), base)

\* detectBot on request number i: analyze is called only when the fast
\* path and the environment check let the request through
screened(cache, legit, obj, i, t, base) ==
    detectBotWith(cache, legit, obj, fingerprintOf[i], browserCheckOf[i].score,
                  analyze(cache, Requests[i], fingerprintOf[i], t), base)

detectBotResult(cache, legit, obj, i, t) ==
    screened(cache, legit, obj, i, t, started(cache, legit, obj, i, t))

RECURSIVE Events(_)
Events(cache) ==
    IF DOMAIN cache = {} THEN 0
    ELSE LET f == CHOOSE g \in DOMAIN cache : TRUE
         IN  Len(cache[f].patterns) + Events([g \in DOMAIN cache \ {f} |-> cache[g]])

\* one call of detectBot at clock reading t, cut off when it would leave
\* more than maxEvents events in the cache
Return(r, t, maxEvents) ==
    /\ Events(r.cache) <= maxEvents
    /\ behaviorCache' = r.cache
    /\ legitimateClients' = r.legit
    /\ last' = r.last
    /\ now' = t
    /\ UNCHANGED clientVars

Call(obj, i, t, maxEvents) ==
    Return(detectBotResult(behaviorCache, legitimateClients, obj, i, t), t, maxEvents)

DetectBot(obj, i) == Call(obj, i, now, MaxEvents)

(***************************************************************************)
(* The cleanup timer                                                       *)
(***************************************************************************)
\* the cleanup with the operands of the subtraction exchanged
sweepSwapped(cache, t) ==
    [f \in {g \in DOMAIN cache : ~(cache[g].lastSeen - t > PATTERN_MEMORY)} |-> cache[f]]

\* the cleanup leaving its loop after the first deletion
sweepFirstOnly(cache, t) ==
    LET stale == {g \in DOMAIN cache : t - cache[g].lastSeen > PATTERN_MEMORY}
    IN  IF stale = {} THEN cache
        ELSE [f \in DOMAIN cache \ {CHOOSE g \in stale : TRUE} |-> cache[f]]

\* the cleanup deleting a profile as soon as it is PATTERN_MEMORY old
sweepAtWindow(cache, t) ==
    [f \in {g \in DOMAIN cache : ~(t - cache[g].lastSeen >= PATTERN_MEMORY)} |-> cache[f]]

sweep(cache, t) ==
    [f \in {g \in DOMAIN cache : ~(t - cache[g].lastSeen > PATTERN_MEMORY)} |-> cache[f]]

\* The interval callback.  The timer's period is left out: the callback
\* may run at any clock reading, which includes every reading at which the
\* timer lets it run.
Sweep ==
    /\ behaviorCache' = sweep(behaviorCache, now)
    /\ last' = [Idle("sweep", now) EXCEPT
                    !.removed = DOMAIN behaviorCache \ DOMAIN sweep(behaviorCache, now)]
    /\ UNCHANGED <<now, legitimateClients>>
    /\ UNCHANGED clientVars

Next ==
    \/ \E d \in Deltas : Tick(d)
    \/ \E obj \in ReqObjects, i \in DOMAIN Requests : DetectBot(obj, i)
    \/ Sweep

Spec == Init /\ [][Next]_vars

(***************************************************************************)
(* One client sending the same request again and again, each 10 ms after  *)
(* the one before                                                          *)
(***************************************************************************)
\* requests in a burst
BurstLength == 10

BurstRequest(obj, i) ==
    /\ last.op = "load" \/ (last.req = i /\ now < (BurstLength - 1) * 10)
    /\ Call(obj, i, IF last.op = "load" THEN now ELSE now + 10, BurstLength)

NextBurst == \E obj \in ReqObjects, i \in DOMAIN Requests : BurstRequest(obj, i)

SpecBurst == Init /\ [][NextBurst]_vars

(***************************************************************************)
(* One browser walking over the site, each request 10 ms after the one     *)
(* before                                                                  *)
(***************************************************************************)
\* requests in a session
SessionLength == 7

\* the requests of the desktop Chrome
SessionRequests == {i \in DOMAIN Requests : Requests[i].headers = BrowserHeaders}

SessionRequest(obj, i) ==
    /\ last.op = "load" \/ now < (SessionLength - 1) * 10
    /\ Call(obj, i, IF last.op = "load" THEN now ELSE now + 10, SessionLength)

NextSession == \E obj \in ReqObjects, i \in SessionRequests : SessionRequest(obj, i)

SpecSession == Init /\ [][NextSession]_vars

(***************************************************************************)
(* Clients that differ in their language and encoding headers              *)
(***************************************************************************)
\* events in the store
HeaderEvents == 4

LanguageHeaders(accept, language, encoding, connection) ==
    Headers(  "user-agent" :> <<"u">>
           @@ "accept" :> accept
           @@ "accept-language" :> language
           @@ "accept-encoding" :> encoding
           @@ "connection" :> connection)

\* the requests the environment sends, by number: language alone, encoding
\* alone, an empty language, both, both with another language, and the
\* values of the fourth one header further on
HeaderRequests ==
    << Request(LanguageHeaders(<<"x">>, <<"a">>, Undefined, Undefined), <<"/","l","o","a","d","i","n","g">>),
       Request(LanguageHeaders(<<"x">>, Undefined, <<"a">>, Undefined), <<"/","l","o","a","d","i","n","g">>),
       Request(LanguageHeaders(<<"x">>, <<>>, <<"a">>, Undefined), <<"/","l","o","a","d","i","n","g">>),
       Request(LanguageHeaders(<<"x">>, <<"a">>, <<"b">>, Undefined), <<"/","l","o","a","d","i","n","g">>),
       Request(LanguageHeaders(<<"x">>, <<"b">>, <<"b">>, Undefined), <<"/","l","o","a","d","i","n","g">>),
       Request(LanguageHeaders(Undefined, <<"x">>, <<"a">>, <<"b">>), <<"/","l","o","a","d","i","n","g">>) >>

\* detectBot(req) for the request object obj holding req, request number k
\* of the list above, whose token is fingerprint
detectBotOn(cache, legit, obj, req, k, fingerprint, t) ==
    detectBotWith(cache, legit, obj, fingerprint,
                  validateBrowserEnvironment(req).score,
                  analyze(cache, req, fingerprint, t),
                  [Idle("detectBot", t) EXCEPT
                       !.obj = obj, !.req = k, !.fingerprint = fingerprint,
                       !.marked = (obj \in legit),
                       !.hadProfile = Has(cache, fingerprint),
                       !.before = IF Has(cache, fingerprint)
                                  THEN cache[fingerprint].patterns ELSE <<>>])

HeaderRequest(obj, k) ==
    Return(detectBotOn(behaviorCache, legitimateClients, obj, HeaderRequests[k], k,
                       generateFingerprint(HeaderRequests[k]), now),
           now, HeaderEvents)

NextHeaders == \E obj \in ReqObjects, k \in DOMAIN HeaderRequests : HeaderRequest(obj, k)

SpecHeaders == Init /\ [][NextHeaders]_vars

(***************************************************************************)
(* The browser's socket client                                             *)
(***************************************************************************)
\* calls of emitPageChange waiting at an await, and pending timeouts
MaxPending == 3

\* no handler has set window.location.href: the page is still there
OnPage == href = <<>>

\* emitPageChange up to its first await, after the handler has emitted
\* before; withTimer when the handler also sets the 500 ms timeout
startPageChange(before, withTimer) ==
    /\ pending < MaxPending
    /\ withTimer => loadingTimers < MaxPending
    /\ pending' = pending + 1
    /\ loadingTimers' = IF withTimer THEN loadingTimers + 1 ELSE loadingTimers
    /\ sent' = before \o <<"page_loading">>

\* socket.on('connect') and socket.on('reconnect'); the connect handler
\* emits check_session when the URL carries a session id
SocketConnect(event, hasSession) ==
    /\ OnPage
    /\ ~connected
    /\ event = "reconnect" => ~hasSession
    /\ IF isForceDisconnected
       THEN /\ connected' = FALSE
            /\ sent' = <<>>
            /\ UNCHANGED <<pending, loadingTimers>>
       ELSE /\ connected' = TRUE
            /\ startPageChange(<<"page_loading">>
                                   \o (IF hasSession THEN <<"check_session">> ELSE <<>>),
                               TRUE)
    /\ UNCHANGED <<isForceDisconnected, reconnectDisabled, heartbeatInterval,
                   redirectTimer, href>>
    /\ UNCHANGED serverVars

\* the connection drops: socket.on('disconnect')
SocketDisconnect ==
    /\ OnPage
    /\ connected
    /\ connected' = FALSE
    /\ sent' = <<>>
    /\ UNCHANGED <<isForceDisconnected, reconnectDisabled, heartbeatInterval,
                   pending, loadingTimers, redirectTimer, href>>
    /\ UNCHANGED serverVars

\* socket.on('force_disconnect')
ForceDisconnect ==
    /\ OnPage
    /\ connected
    /\ isForceDisconnected' = TRUE
    /\ reconnectDisabled' = TRUE
    /\ connected' = FALSE
    /\ heartbeatInterval' = FALSE
    /\ redirectTimer' = TRUE
    /\ sent' = <<>>
    /\ UNCHANGED <<pending, loadingTimers, href>>
    /\ UNCHANGED serverVars

\* the 100 ms timeout of the force_disconnect handler; the page is left,
\* and the beforeunload listener emits on the way out
RedirectTimer ==
    /\ OnPage
    /\ redirectTimer
    /\ redirectTimer' = FALSE
    /\ href' = <<"g","o","o","g","l","e">>
    /\ sent' = <<"page_loading", "user_leaving">>
    /\ UNCHANGED <<isForceDisconnected, reconnectDisabled, connected,
                   heartbeatInterval, pending, loadingTimers>>
    /\ UNCHANGED serverVars

\* the callback of window.heartbeatInterval
Heartbeat ==
    /\ OnPage
    /\ heartbeatInterval
    /\ sent' = IF ~isForceDisconnected /\ connected THEN <<"heartbeat">> ELSE <<>>
    /\ UNCHANGED <<isForceDisconnected, reconnectDisabled, connected,
                   heartbeatInterval, pending, loadingTimers, redirectTimer, href>>
    /\ UNCHANGED serverVars

\* the popstate, click and DOMContentLoaded listeners
PageEvent(event) ==
    /\ OnPage
    /\ IF ~isForceDisconnected
       THEN startPageChange(<<>>, event = "DOMContentLoaded")
       ELSE /\ sent' = <<>>
            /\ UNCHANGED <<pending, loadingTimers>>
    /\ UNCHANGED <<isForceDisconnected, reconnectDisabled, connected,
                   heartbeatInterval, redirectTimer, href>>
    /\ UNCHANGED serverVars

\* emitPageChange after its awaits: the page was fetched and transformed
\* (ok), or the try block threw and the catch block leaves the page
PageChangeSettles(ok) ==
    /\ OnPage
    /\ pending > 0
    /\ pending' = pending - 1
    /\ sent' = IF ok THEN <<"page_change", "page_loading">>
               ELSE <<"page_loading", "page_loading", "user_leaving">>
    /\ href' = IF ok THEN href ELSE <<"p","a","g","e","s">>
    /\ UNCHANGED <<isForceDisconnected, reconnectDisabled, connected,
                   heartbeatInterval, loadingTimers, redirectTimer>>
    /\ UNCHANGED serverVars

\* a 500 ms timeout set next to emitPageChange
LoadingTimer ==
    /\ OnPage
    /\ loadingTimers > 0
    /\ loadingTimers' = loadingTimers - 1
    /\ sent' = <<"page_loading">>
    /\ UNCHANGED <<isForceDisconnected, reconnectDisabled, connected,
                   heartbeatInterval, pending, redirectTimer, href>>
    /\ UNCHANGED serverVars

NextClient ==
    \/ \E event \in {"connect", "reconnect"}, hasSession \in BOOLEAN :
           SocketConnect(event, hasSession)
    \/ SocketDisconnect
    \/ ForceDisconnect
    \/ RedirectTimer
    \/ Heartbeat
    \/ \E event \in {"popstate", "click", "DOMContentLoaded"} : PageEvent(event)
    \/ \E ok \in BOOLEAN : PageChangeSettles(ok)
    \/ LoadingTimer

SpecClient == Init /\ [][NextClient]_vars

(***************************************************************************)
(* calculateSuspiciousScore on its own                                     *)
(***************************************************************************)
\* factor values on both sides of the low-factor threshold 0.3, and on it
Factors == {Q(0, 1), Q(1, 10), Q(29, 100), Q(3, 10), Q(31, 100), Q(1, 1)}

\* one call of calculateSuspiciousScore; last keeps the arguments in
\* analysis.details and the result in analysis.suspicious
CalculateSuspiciousScore(timing, navigation, headers) ==
    /\ last' = [Idle("calculateSuspiciousScore", now) EXCEPT
                    !.analysis = [threw |-> FALSE, confidence |-> NotComputed,
                                  suspicious |-> calculateSuspiciousScore(
                                                     timing, navigation, headers),
                                  details |-> [timing |-> timing,
                                               navigation |-> navigation,
                                               headers |-> headers]]]
    /\ UNCHANGED <<now, behaviorCache, legitimateClients>>
    /\ UNCHANGED clientVars

NextFactors ==
    \E timing \in Factors, navigation \in Factors, headers \in Factors :
        CalculateSuspiciousScore(timing, navigation, headers)

SpecFactors == Init /\ [][NextFactors]_vars

(***************************************************************************)
(* The return statements of detectBot on their own                         *)
(***************************************************************************)
\* environment scores on both sides of the bars 20 and 40, and on them
Scores == {0 - 5, 19, 20, 39, 40, 125}

\* values of the timing factor: analyzeTimingPatterns gives 0, 0.3, 0.5 or 1
TimingFactors == {Q(0, 1), Q(3, 10), Q(1, 1)}

\* what analyzeBehaviorPatterns can give for the navigation factor: a
\* value, or nothing when hasLogicalFlow throws
NavigationFactors == {NotComputed, Q(0, 1), Q(31, 100), Q(1, 1)}

HeaderFactors == {Q(0, 1), Q(31, 100), Q(1, 1)}

\* detectBot called with request object obj, for a request of environment
\* score score whose history has the given three factors
Decide(obj, score, timing, navigation, headers) ==
    Return(detectBotWith(behaviorCache, legitimateClients, obj,
                         fingerprintOf[1], score,
                         [seen |-> <<>>,
                          analysis |-> weighted(timing, navigation, headers),
                          cache |-> behaviorCache],
                         [Idle("detectBot", now) EXCEPT
                              !.obj = obj,
                              !.fingerprint = fingerprintOf[1],
                              !.marked = (obj \in legitimateClients)]),
           now, MaxEvents)

NextDecide ==
    \E obj \in ReqObjects, score \in Scores, timing \in TimingFactors,
       navigation \in NavigationFactors, headers \in HeaderFactors :
        Decide(obj, score, timing, navigation, headers)

SpecDecide == Init /\ [][NextDecide]_vars

(***************************************************************************)
(* generateFingerprint on its own                                          *)
(***************************************************************************)
\* a component of the token: absent, the empty string, or one of two values
ComponentValues == <<Undefined, <<>>, <<"a">>, <<"b">>>>

\* remote addresses: absent or present
Addresses == <<Undefined, <<"a">>>>

\* requests number 1 to TokenRequestCount: user-agent, accept and connection
\* take every combination of ComponentValues, req.ip every address
TokenRequestCount == Len(ComponentValues) * Len(ComponentValues)
                         * Len(ComponentValues) * Len(Addresses)

TokenRequest(k) ==
    LET n == Len(ComponentValues)
    IN  [headers |-> Headers(   "user-agent" :> ComponentValues[((k - 1) % n) + 1]
                             @@ "accept" :> ComponentValues[(((k - 1) \div n) % n) + 1]
                             @@ "connection" :> ComponentValues[(((k - 1) \div (n * n)) % n) + 1]),
         path |-> <<"/">>, method |-> "GET",
         ip |-> Addresses[((k - 1) \div (n * n * n)) + 1]]

\* one call of generateFingerprint, on request number k
GenerateFingerprint(k) ==
    /\ last' = [Idle("generateFingerprint", now) EXCEPT
                    !.req = k,
                    !.fingerprint = generateFingerprint(TokenRequest(k))]
    /\ UNCHANGED <<now, behaviorCache, legitimateClients>>
    /\ UNCHANGED clientVars

NextFingerprint == \E k \in 1..TokenRequestCount : GenerateFingerprint(k)

SpecFingerprint == Init /\ [][NextFingerprint]_vars

(***************************************************************************)
(* validateBrowserEnvironment on its own                                   *)
(***************************************************************************)
\* user-agent values: absent, a desktop Chrome, a Firefox, a mobile
\* browser, and one naming two automation indicators
UserAgents ==
    << Undefined,
       <<"C","h","r","o","m","e","/","1",".","0"," ","W","i","n","d","o","w","s"," ","N","T"," ","1">>,
       <<"F","i","r","e","f","o","x","/","1">>,
       <<"A","n","d","r","o","i","d"," ","1"," ","M","o","b","i","l","e">>,
       <<"b","o","t"," ","c","r","a","w","l","e","r">> >>

EngineHints == << Undefined, <<"\"","C","h","r","o","m","i","u","m","\"">> >>

PlatformHints == << Undefined, <<"\"","W","i","n","d","o","w","s","\"">> >>

MobileHints == << Undefined, <<"?","0">>, <<"?","1">> >>

AcceptValues == << Undefined, <<"*","/","*">> >>

EnvironmentRequestCount ==
    Len(UserAgents) * Len(EngineHints) * Len(PlatformHints)
        * Len(MobileHints) * Len(AcceptValues) * Len(AcceptValues)

\* the k-th of x values when every d consecutive numbers share one
Pick(values, k, d) == values[(((k - 1) \div d) % Len(values)) + 1]

\* header objects number 1 to EnvironmentRequestCount: every combination
\* of the values above for user-agent, sec-ch-ua, sec-ch-ua-platform,
\* sec-ch-ua-mobile, accept and sec-fetch-site
EnvironmentHeaders(k) ==
    Headers(   "user-agent" :> Pick(UserAgents, k, 1)
            @@ "sec-ch-ua" :> Pick(EngineHints, k, 5)
            @@ "sec-ch-ua-platform" :> Pick(PlatformHints, k, 10)
            @@ "sec-ch-ua-mobile" :> Pick(MobileHints, k, 20)
            @@ "accept" :> Pick(AcceptValues, k, 60)
            @@ "sec-fetch-site" :> Pick(AcceptValues, k, 120))

\* one call of validateBrowserEnvironment, on header object number k
ValidateBrowserEnvironment(k) ==
    /\ last' = [Idle("validateBrowserEnvironment", now) EXCEPT
                    !.req = k,
                    !.score = validateBrowserEnvironment(
                                  [headers |-> EnvironmentHeaders(k)]).score]
    /\ UNCHANGED <<now, behaviorCache, legitimateClients>>
    /\ UNCHANGED clientVars

NextEnvironment ==
    \E k \in 1..EnvironmentRequestCount : ValidateBrowserEnvironment(k)

SpecEnvironment == Init /\ [][NextEnvironment]_vars

(***************************************************************************)
(* analyzeTimingPatterns on its own                                        *)
(***************************************************************************)
\* intervals in milliseconds around the bar of 50 ms for one interval and,
\* for two intervals, around the difference of 200 ms at which their
\* standard deviation is 100 ms
Intervals == {0, 49, 50, 249, 250, 1000}

\* the events of one client whose timestamps start at t and are the given
\* intervals apart
RECURSIVE History(_, _)
History(intervals, t) ==
    IF Len(intervals) = 0 THEN <<Pattern(Requests[2], t)>>
    ELSE <<Pattern(Requests[2], t)>> \o History(Tail(intervals), t + intervals[1])

\* one call of analyzeTimingPatterns; last keeps the history in seen and
\* the result in analysis.details.timing
AnalyzeTimingPatterns(intervals) ==
    /\ last' = [Idle("analyzeTimingPatterns", now) EXCEPT
                    !.seen = History(intervals, 0),
                    !.analysis.details.timing =
                        analyzeTimingPatterns(History(intervals, 0))]
    /\ UNCHANGED <<now, behaviorCache, legitimateClients>>
    /\ UNCHANGED clientVars

NextTiming ==
    \E a \in Intervals, b \in Intervals, c \in Intervals, n \in 1..3 :
        AnalyzeTimingPatterns(SubSeq(<<a, b, c>>, 1, n))

SpecTiming == Init /\ [][NextTiming]_vars

(***************************************************************************)
(* Properties                                                              *)
(***************************************************************************)
\* the last handler was detectBot and it reached BehaviorAnalysis.analyze
Analysed ==
    /\ last.op = "detectBot"
    /\ last.exit \in {"throw", "behavior", "pass", "combined"}

InUnit(q) == QLeq(Q(0, 1), q) /\ QLeq(q, Q(1, 1))

Timestamps(patterns) == [k \in 1..Len(patterns) |-> patterns[k].timestamp]

ClientHints ==
    {"sec-ch-ua", "sec-ch-ua-platform", "sec-ch-ua-mobile",
     "sec-ch-ua-full-version-list", "sec-ch-ua-platform-version"}

\* no user-agent header and no client-hint header
NoUserAgentNoHints(headers) ==
    \A n \in {"user-agent"} \cup ClientHints : headers[n] = Undefined

\* C1: detectBot never throws or rejects: every call returns a verdict.
C1_NeverThrows == last.op = "detectBot" => last.exit # "throw"

\* the components generateFingerprint selects, as the request carries them
Selected(req) ==
    << req.headers["user-agent"], req.headers["accept"],
       req.headers["accept-language"], req.headers["accept-encoding"],
       req.headers["connection"], req.headers["upgrade-insecure-requests"],
       req.headers["viewport-width"], req.headers["sec-ch-ua-full-version-list"],
       req.headers["sec-ch-ua-platform-version"], req.ip >>

\* C2: the token detectBot derives, in whatever state it is called, is the
\* token of every request that carries the same selected header values and
\* the same remote address.
C2_FingerprintDeterministic ==
    last.op = "detectBot" =>
        \A j \in DOMAIN Requests :
            Selected(Requests[j]) = Selected(Requests[last.req])
                => generateFingerprint(Requests[j]) = last.fingerprint

C2_Witness ==
    /\ last.op = "detectBot"
    /\ last.hadProfile
    /\ \E j \in DOMAIN Requests :
          /\ j # last.req
          /\ Selected(Requests[j]) = Selected(Requests[last.req])
          /\ \E k \in 1..Len(last.before) : last.before[k].path = Requests[j].path

\* C3 as stated: the first request seen for a token (no profile in the
\* cache) with an environment score of 40 or more is answered is_bot=false
\* with the neutral confidence 0.7 and zero suspicion.
C3_FirstRequestNeutral ==
    (/\ last.op = "detectBot"
     /\ ~last.hadProfile
     /\ browserCheckOf[last.req].score >= 40)
    => /\ last.exit # "throw"
       /\ last.verdict.isBot = FALSE
       /\ last.verdict.confidence = Q(7, 10)
       /\ last.analysis.suspicious = 0

\* C3 amended: the same, for a request object that is not already marked
\* legitimate; the profile it creates has suspicion counter 0.
C3_FirstUnmarkedRequestNeutral ==
    (/\ last.op = "detectBot"
     /\ ~last.marked
     /\ ~last.hadProfile
     /\ browserCheckOf[last.req].score >= 40)
    => /\ last.exit = "pass"
       /\ last.verdict.isBot = FALSE
       /\ last.verdict.confidence = Q(7, 10)
       /\ ~last.analysis.threw
       /\ last.analysis.confidence = Q(7, 10)
       /\ last.analysis.suspicious = 0
       /\ Has(behaviorCache, last.fingerprint)
       /\ behaviorCache[last.fingerprint].suspicious = 0

\* a first request that follows the eviction of the token's profile: an
\* earlier request of the client was admitted and marked its object, and
\* the profile that request created is gone
C3_Witness ==
    /\ last.op = "detectBot"
    /\ ~last.marked
    /\ ~last.hadProfile
    /\ last.exit = "pass"
    /\ last.obj = Fresh
    /\ legitimateClients # {}
    /\ DOMAIN behaviorCache = {last.fingerprint}

\* every header object without user-agent and client hints, the other
\* headers present or absent in every combination
HeadersWithoutUserAgent ==
    LET others == HeaderNames \ ({"user-agent"} \cup ClientHints)
    IN  {Headers([n \in S |-> <<"x">>]) : S \in SUBSET others}

EnvironmentRejectsWithoutUserAgent ==
    \A h \in HeadersWithoutUserAgent :
        validateBrowserEnvironment([headers |-> h]).score < 20

\* C4 as stated: every request without user-agent and client-hint headers
\* scores below 20 and is answered is_bot=true, invalid_browser_environment.
C4_NoUserAgentRejected ==
    (/\ last.op = "detectBot"
     /\ NoUserAgentNoHints(Requests[last.req].headers))
    => /\ browserCheckOf[last.req].score < 20
       /\ last.exit = "environment"
       /\ last.verdict.isBot = TRUE
       /\ last.verdict.reason = "invalid_browser_environment"

\* C4 amended: the same, for a request object that is not already marked
\* legitimate; the score is below 20 whatever other headers are present.
C4_UnmarkedNoUserAgentRejected ==
    /\ EnvironmentRejectsWithoutUserAgent
    /\ (/\ last.op = "detectBot"
        /\ ~last.marked
        /\ NoUserAgentNoHints(Requests[last.req].headers))
       => /\ last.score < 20
          /\ last.exit = "environment"
          /\ last.verdict.isBot = TRUE
          /\ last.verdict.reason = "invalid_browser_environment"

C4_Witness ==
    /\ last.op = "detectBot"
    /\ ~last.marked
    /\ NoUserAgentNoHints(Requests[last.req].headers)
    /\ last.exit = "environment"
    /\ DOMAIN behaviorCache # {}

\* the analyzer was handed ten events of one path, each 10 ms after the
\* one before, of a client whose environment score is at least 20
TenRequestBurst ==
    /\ Analysed
    /\ browserCheckOf[last.req].score >= 20
    /\ Len(last.seen) = 10
    /\ \A k \in 2..10 :
          /\ last.seen[k].timestamp - last.seen[k - 1].timestamp = 10
          /\ last.seen[k].path = last.seen[1].path

\* C5: after ten requests to one path at 10 ms intervals the timing factor
\* of the tenth is 0, the suspicion count is at least 1, and a suspicion
\* count above 1 gives is_bot=true with reason suspicious_behavior.
C5_BurstIsSuspicious ==
    TenRequestBurst =>
        /\ last.analysis.details.timing = Q(0, 1)
        /\ last.exit # "throw"
        /\ last.analysis.suspicious >= 1
        /\ last.analysis.suspicious > 1 =>
              /\ last.exit = "behavior"
              /\ last.verdict.isBot = TRUE
              /\ last.verdict.reason = "suspicious_behavior"

\* C6: right after analyze has run for a token at time now, every event
\* stored for the token is less than PATTERN_MEMORY old.
C6_WindowAfterRecord ==
    Analysed =>
        /\ Has(behaviorCache, last.fingerprint)
        /\ \A k \in 1..Len(behaviorCache[last.fingerprint].patterns) :
              last.at - behaviorCache[last.fingerprint].patterns[k].timestamp
                  < PATTERN_MEMORY

\* the call dropped an event that had reached the age PATTERN_MEMORY
C6_Witness ==
    /\ Analysed
    /\ \E k \in 1..Len(last.before) :
          last.at - last.before[k].timestamp >= PATTERN_MEMORY
    /\ Len(behaviorCache[last.fingerprint].patterns) = 1

C8_SweepRemovesIdleProfiles ==
    [][Sweep =>
        \A f \in DOMAIN behaviorCache :
            now - behaviorCache[f].lastSeen > PATTERN_MEMORY
                => f \notin DOMAIN behaviorCache']_vars

\* a cleanup that removed an idle profile and kept another client's
C8_Witness ==
    /\ last.op = "sweep"
    /\ last.removed # {}
    /\ DOMAIN behaviorCache # {}

\* C9: with events six and two minutes old stored for the token, the
\* analyzer is handed exactly the two-minute-old event and the new one.
C9_PrunedBeforeAnalysis ==
    (/\ Analysed
     /\ Timestamps(last.before) = <<last.at - 6 * 60 * 1000, last.at - 2 * 60 * 1000>>)
    => /\ Len(last.seen) = 2
       /\ last.seen[1] = last.before[2]
       /\ last.seen[2] = Pattern(Requests[last.req], last.at)

C9_Witness ==
    /\ Analysed
    /\ Timestamps(last.before) = <<last.at - 6 * 60 * 1000, last.at - 2 * 60 * 1000>>
    /\ Timestamps(last.seen) = <<last.at - 2 * 60 * 1000, last.at>>

\* C10: for every history analyzeBehaviorPatterns returns a confidence in
\* [0,1]; a history of fewer than two events gives the neutral 0.7, and for
\* longer ones each of the three factors lies in [0,1].
C10_ConfidenceInUnitInterval ==
    Analysed =>
        /\ ~last.analysis.threw
        /\ InUnit(last.analysis.confidence)
        /\ Len(last.seen) < 2 => last.analysis.confidence = Q(7, 10)
        /\ InUnit(last.analysis.details.timing)
        /\ InUnit(last.analysis.details.navigation)
        /\ InUnit(last.analysis.details.headers)


\* C11: the suspicion count is the number of the three factors that are
\* strictly below 0.3; it is in 0..3, and replacing one factor by a value
\* below 0.3, the other two unchanged, never gives a smaller count.
C11_SuspicionCountsLowFactors ==
    last.op = "calculateSuspiciousScore" =>
        LET d == last.analysis.details
            n == last.analysis.suspicious
            low == {v \in Factors : QLess(v, Q(3, 10))}
        IN  /\ n = Cardinality({k \in {"timing", "navigation", "headers"} :
                                    QLess(d[k], Q(3, 10))})
            /\ n \in 0..3
            /\ \A v \in low :
                   /\ calculateSuspiciousScore(v, d.navigation, d.headers) >= n
                   /\ calculateSuspiciousScore(d.timing, v, d.headers) >= n
                   /\ calculateSuspiciousScore(d.timing, d.navigation, v) >= n

\* one factor on the threshold, one just below it, one high: count 1
C11_Witness ==
    /\ last.op = "calculateSuspiciousScore"
    /\ last.analysis.details.timing = Q(3, 10)
    /\ last.analysis.details.navigation = Q(29, 100)
    /\ last.analysis.details.headers = Q(1, 1)
    /\ last.analysis.suspicious = 1


\* a profile as a completed analyze leaves it: its last-seen time is the
\* time of its newest event
Whole(clientData) ==
    /\ Len(clientData.patterns) > 0
    /\ clientData.lastSeen = clientData.patterns[Len(clientData.patterns)].timestamp

\* C12: analyze and the cleanup callback each run to completion, so in
\* every state in which the cleanup can run every profile in the store is
\* whole, never half-updated; and after analyze has run for a request the
\* token's profile is in the store with that request's event as its last.
C12_SweepSeesWholeProfiles ==
    /\ \A f \in DOMAIN behaviorCache : Whole(behaviorCache[f])
    /\ Analysed =>
          /\ Has(behaviorCache, last.fingerprint)
          /\ LET patterns == behaviorCache[last.fingerprint].patterns
             IN  /\ Len(patterns) > 0
                 /\ patterns[Len(patterns)] = Pattern(Requests[last.req], last.at)


\* C13: two requests with the same token are handled one after the other,
\* never interleaved, so analyze for the later one starts from what the
\* earlier one stored: after it the stored sequence is the events stored
\* before that are still inside the window, followed by its own event.
\* No event of the other request is overwritten, also when the two are the
\* first requests of the token.
C13_NoLostEvent ==
    [][(last'.op = "detectBot"
        /\ last'.exit \in {"throw", "behavior", "pass", "combined"})
       => LET f == last'.fingerprint
              stored == IF Has(behaviorCache, f)
                        THEN behaviorCache[f].patterns ELSE <<>>
          IN  /\ Has(behaviorCache', f)
              /\ behaviorCache'[f].patterns =
                     SelectSeq(stored, LAMBDA p : last'.at - p.timestamp < PATTERN_MEMORY)
                     \o <<Pattern(Requests[last'.req], last'.at)>>]_vars

\* the first two requests of a token, handled at the same clock reading:
\* both events are stored
C13_Witness ==
    /\ Analysed
    /\ last.hadProfile
    /\ Len(last.before) = 1
    /\ last.before[1].timestamp = last.at
    /\ Len(behaviorCache[last.fingerprint].patterns) = 2
    /\ behaviorCache[last.fingerprint].patterns[1] = last.before[1]


NonDecreasing(ts) == \A j \in 1..(Len(ts) - 1) : ts[j] <= ts[j + 1]

\* C14: in every stored profile the events are in arrival order, their
\* timestamps non-decreasing; and the sequence the behavior analyzer is
\* handed for a request ends with that request's own event.
C14_ArrivalOrder ==
    /\ \A f \in DOMAIN behaviorCache :
           NonDecreasing(Timestamps(behaviorCache[f].patterns))
    /\ Analysed =>
          /\ Len(last.seen) > 0
          /\ last.seen[Len(last.seen)] = Pattern(Requests[last.req], last.at)

\* a second request of a token two or three minutes after the first
C14_Witness ==
    /\ Analysed
    /\ Len(last.seen) = 2
    /\ last.seen[1].timestamp < last.seen[2].timestamp
    /\ behaviorCache[last.fingerprint].patterns = last.seen


\* C15: a call of detectBot that rejects the request on environment
\* grounds (environment score below 20) leaves the profile store as it
\* was: no profile created, no event appended, no profile's last-seen
\* time, score or suspicion counter changed.
C15_EnvironmentRejectLeavesStore ==
    [][(last'.op = "detectBot" /\ last'.exit = "environment")
       => /\ last'.score < 20
          /\ behaviorCache' = behaviorCache]_vars

\* a request rejected on environment grounds while the store holds the
\* profile of another client
C15_Witness ==
    /\ last.op = "detectBot"
    /\ last.exit = "environment"
    /\ last.score < 20
    /\ DOMAIN behaviorCache # {}
    /\ ~Has(behaviorCache, last.fingerprint)


\* detectBot returned a verdict with the given reason
Returned(reason) ==
    /\ last.op = "detectBot"
    /\ last.verdict # NotComputed
    /\ last.verdict.reason = reason

\* analyze returned a confidence to detectBot
HasConfidence == Analysed /\ last.analysis.confidence # NotComputed

LowFactors ==
    {k \in {"timing", "navigation", "headers"} :
        /\ last.analysis.details[k] # NotComputed
        /\ QLess(last.analysis.details[k], Q(3, 10))}

\* C16: for a request object without the legitimacy mark, detectBot
\* returns suspicious_behavior exactly when the environment score is at
\* least 20, the behavior confidence is below 0.4 and the suspicion count
\* is above 1; the verdict then has is_bot = true and confidence 0.85, and
\* a history with at most one low factor never gets it.
C16_SuspiciousBehaviorExactly ==
    (last.op = "detectBot" /\ ~last.marked) =>
        /\ Returned("suspicious_behavior")
               <=> /\ last.score >= 20
                   /\ HasConfidence
                   /\ QLess(last.analysis.confidence, Q(4, 10))
                   /\ last.analysis.suspicious > 1
        /\ Returned("suspicious_behavior")
               => /\ last.verdict.isBot = TRUE
                  /\ last.verdict.confidence = Q(85, 100)
        /\ (HasConfidence /\ Cardinality(LowFactors) <= 1)
               => ~Returned("suspicious_behavior")

\* confidence 0.3*0 + 0.4*0.31 + 0.3*0.31 = 0.217 with the timing factor
\* alone low: below the bar, yet not suspicious_behavior
C16_Witness ==
    /\ last.op = "detectBot"
    /\ ~last.marked
    /\ last.score = 20
    /\ HasConfidence
    /\ QLess(last.analysis.confidence, Q(4, 10))
    /\ LowFactors = {"timing"}
    /\ Returned("combined_factors")

\* C17: for a request object without the legitimacy mark, detectBot
\* returns is_bot = false if and only if the environment score is at least
\* 40 and the behavior confidence is at least 0.4; in that case and in no
\* other the request object is added to the legitimate set.
C17_AdmittedExactly ==
    (last.op = "detectBot" /\ ~last.marked) =>
        LET clears == /\ last.score >= 40
                      /\ HasConfidence
                      /\ QLeq(Q(4, 10), last.analysis.confidence)
        IN  /\ (last.verdict # NotComputed /\ last.verdict.isBot = FALSE) <=> clears
            /\ last.exit = "pass" <=> clears
            /\ last.obj \in HeldObjects
                   => (last.obj \in legitimateClients <=> clears)

\* a kept request object admitted exactly on both bars
C17_Witness ==
    /\ last.op = "detectBot"
    /\ ~last.marked
    /\ last.obj \in HeldObjects
    /\ last.score = 40
    /\ HasConfidence
    /\ last.analysis.confidence = Q(4, 10)
    /\ last.verdict.isBot = FALSE
    /\ last.obj \in legitimateClients


\* C18: every call of detectBot that takes none of the earlier exits (the
\* fast path, the environment rejection, suspicious_behavior, the
\* admission) returns is_bot = true, combined_factors, confidence 0.6; in
\* particular a request with an environment score from 20 to 39 that is
\* not let through by the fast path is never answered is_bot = false.
C18_OtherwiseCombinedFactors ==
    last.op = "detectBot" =>
        /\ last.exit \notin {"fast", "environment", "behavior", "pass"}
               => /\ Returned("combined_factors")
                  /\ last.verdict.isBot = TRUE
                  /\ last.verdict.confidence = Q(6, 10)
        /\ (~last.marked /\ last.score >= 20 /\ last.score < 40)
               => /\ last.verdict # NotComputed
                  /\ last.verdict.isBot = TRUE


\* C19: a call of detectBot with a request object that is already marked
\* legitimate returns is_bot = false with confidence 1 and leaves the
\* profile store and the legitimate set as they were, whatever the
\* request's headers are now.
C19_FastPath ==
    [][(last'.op = "detectBot" /\ last'.marked)
       => /\ last'.exit = "fast"
          /\ last'.verdict.isBot = FALSE
          /\ last'.verdict.confidence = Q(1, 1)
          /\ last'.analysis = NoAnalysis
          /\ behaviorCache' = behaviorCache
          /\ legitimateClients' = legitimateClients]_vars

\* a marked request object passed again with headers that score below 20,
\* while the store holds a profile
C19_Witness ==
    /\ last.op = "detectBot"
    /\ last.marked
    /\ browserCheckOf[last.req].score < 20
    /\ last.verdict.isBot = FALSE
    /\ DOMAIN behaviorCache # {}

\* C20: every verdict detectBot returns, on each of its exits, has a
\* fingerprint field equal to the token derived from the request.
C20_VerdictCarriesFingerprint ==
    (last.op = "detectBot" /\ last.verdict # NotComputed)
        => last.verdict.fingerprint = generateFingerprint(Requests[last.req])


\* C21: the environment score validateBrowserEnvironment returns is never
\* above the maxScore (100) it reports, and its valid flag is true exactly
\* when the score is at least 40.
C21_ScoreWithinMaxScore ==
    last.op = "detectBot" =>
        /\ browserCheckOf[last.req].score <= browserCheckOf[last.req].maxScore
        /\ browserCheckOf[last.req].maxScore = 100
        /\ browserCheckOf[last.req].valid <=> browserCheckOf[last.req].score >= 40

\* the selected values of a request that are present and not empty, in order
Present(req) == SelectSeq(Selected(req), LAMBDA v : v # Undefined /\ v # <<>>)

\* C22: the token is the digest of the present, non-empty selected values
\* joined in order: absent and empty components are skipped, a request
\* with none gets the digest of the empty string, and requests with the
\* same ordered list of present values get the same token, under whatever
\* header names the values sit.
C22_TokenOfPresentValues ==
    last.op = "generateFingerprint" =>
        /\ last.fingerprint = Join(Present(TokenRequest(last.req)), <<":","|",":">>)
        /\ Present(TokenRequest(last.req)) = <<>> => last.fingerprint = <<>>
        /\ \A j \in 1..TokenRequestCount :
               Present(TokenRequest(j)) = Present(TokenRequest(last.req))
                   => generateFingerprint(TokenRequest(j)) = last.fingerprint

\* the value a under accept, user-agent absent and connection empty: the
\* token of the request that has a under user-agent and nothing else
C22_Witness ==
    /\ last.op = "generateFingerprint"
    /\ TokenRequest(last.req).headers["user-agent"] = Undefined
    /\ TokenRequest(last.req).headers["accept"] = <<"a">>
    /\ TokenRequest(last.req).headers["connection"] = <<>>
    /\ TokenRequest(last.req).ip = Undefined
    /\ last.fingerprint = generateFingerprint(TokenRequest(3))
    /\ TokenRequest(3).headers["user-agent"] = <<"a">>
    /\ TokenRequest(3).headers["accept"] = Undefined


\* C23: only the cleanup removes profiles.  A call of detectBot and the
\* passing of time remove none, and a cleanup run at time now removes a
\* profile only if now - lastSeen is more than PATTERN_MEMORY.
C23_OnlySweepRemoves ==
    [][/\ last'.op # "sweep" => DOMAIN behaviorCache \subseteq DOMAIN behaviorCache'
       /\ last'.op = "sweep" =>
              \A f \in DOMAIN behaviorCache \ DOMAIN behaviorCache' :
                  now - behaviorCache[f].lastSeen > PATTERN_MEMORY]_vars

\* a cleanup that kept a profile last seen exactly PATTERN_MEMORY ago
C23_Witness ==
    /\ last.op = "sweep"
    /\ last.removed = {}
    /\ \E f \in DOMAIN behaviorCache :
          last.at - behaviorCache[f].lastSeen = PATTERN_MEMORY


\* C24: after detectBot has returned for a request that was neither let
\* through by the fast path nor rejected on environment grounds, the store
\* holds a profile for the request's token whose last-seen time is the
\* time of the call, whose score is 100 times the confidence analyze
\* returned and whose suspicion counter is the count analyze returned;
\* the first request of a token included.
C24_ProfileAfterReturn ==
    (last.op = "detectBot" /\ last.exit \in {"behavior", "pass", "combined"}) =>
        /\ Has(behaviorCache, last.fingerprint)
        /\ behaviorCache[last.fingerprint].lastSeen = last.at
        /\ behaviorCache[last.fingerprint].score
               = QMul(last.analysis.confidence, Q(100, 1))
        /\ behaviorCache[last.fingerprint].suspicious = last.analysis.suspicious

\* a later request of a token whose profile had an older last-seen time and
\* the score 70 of a first request
C24_Witness ==
    /\ last.op = "detectBot"
    /\ last.exit \in {"behavior", "pass", "combined"}
    /\ last.hadProfile
    /\ last.before[Len(last.before)].timestamp < last.at
    /\ behaviorCache[last.fingerprint].lastSeen = last.at
    /\ behaviorCache[last.fingerprint].score # Q(70, 1)


\* the verdict of a call of detectBot with a new request object holding
\* request number j, made at time t after the call r
VerdictAfter(r, j, t) ==
    detectBotResult(r.cache, r.legit, Fresh, j, t).last.verdict

\* C25 as stated: once a request object has been admitted and marked, the
\* verdict of a later request made with another, never admitted object
\* is the same whether the request before it was made with the marked
\* object again or with an object that carries no mark.
C25_MarkNeverChangesOtherVerdicts ==
    (last.op = "detectBot" /\ last.exit = "pass" /\ last.obj \in legitimateClients) =>
        \A i \in DOMAIN Requests, j \in DOMAIN Requests :
            VerdictAfter(detectBotResult(behaviorCache, legitimateClients,
                                         last.obj, i, now), j, now)
              = VerdictAfter(detectBotResult(behaviorCache, legitimateClients,
                                             Fresh, i, now), j, now)

\* C25 amended: what a call of detectBot with a request object that is not
\* marked returns, and the store it leaves, do not depend on which other
\* request objects are marked.
C25_UnmarkedCallIgnoresMarks ==
    \A obj \in ReqObjects \ legitimateClients, i \in DOMAIN Requests :
        LET with == detectBotResult(behaviorCache, legitimateClients, obj, i, now)
            without == detectBotResult(behaviorCache, {}, obj, i, now)
        IN  /\ with.last.verdict = without.last.verdict
            /\ with.last.exit = without.last.exit
            /\ with.cache = without.cache

\* a request with a new object, admitted on its own while another request
\* object of the same token is marked
C25_Witness ==
    /\ last.op = "detectBot"
    /\ last.obj = Fresh
    /\ ~last.marked
    /\ last.hadProfile
    /\ last.exit = "pass"
    /\ legitimateClients # {}


\* the environment score of a header object with the header h taken out
ScoreWithout(headers, h) ==
    validateBrowserEnvironment([headers |-> [headers EXCEPT ![h] = Undefined]]).score

IntervalsOf(patterns) ==
    [i \in 1..(Len(patterns) - 1) |->
        patterns[i + 1].timestamp - patterns[i].timestamp]

\* standard deviation below 100 ms: n * sum(x^2) - sum(x)^2 < 100^2 * n^2
TooRegular(iv) ==
    Len(iv) * SumSeq([i \in 1..Len(iv) |-> iv[i] * iv[i]]) - SumSeq(iv) * SumSeq(iv)
        < 100 * 100 * Len(iv) * Len(iv)

TooFast(iv) == \E i \in 1..Len(iv) : iv[i] < 50

\* C27: for a history of two or more events the timing factor is 0 when
\* the standard deviation of the intervals is below 100 ms and some
\* interval is below 50 ms, 0.3 when only the first holds, 0.5 when only
\* the second holds, and 1 when neither holds.
C27_TimingFactor ==
    (last.op = "analyzeTimingPatterns" /\ Len(last.seen) >= 2) =>
        LET iv == IntervalsOf(last.seen)
            timing == last.analysis.details.timing
        IN  /\ (TooRegular(iv) /\ TooFast(iv)) => timing = Q(0, 1)
            /\ (TooRegular(iv) /\ ~TooFast(iv)) => timing = Q(3, 10)
            /\ (~TooRegular(iv) /\ TooFast(iv)) => timing = Q(5, 10)
            /\ (~TooRegular(iv) /\ ~TooFast(iv)) => timing = Q(1, 1)

\* intervals of 49 and 250 ms: too fast, not too regular
C27_Witness ==
    /\ last.op = "analyzeTimingPatterns"
    /\ IntervalsOf(last.seen) = <<49, 250>>
    /\ last.analysis.details.timing = Q(5, 10)


\* the permitted transitions between adjacent pages
AllowedTransitions ==
    { << <<"/">>, <<"/","c","h","e","c","k","-","i","p">> >>,
      << <<"/","c","h","e","c","k","-","i","p">>, <<"/","l","o","a","d","i","n","g">> >>,
      << <<"/","l","o","a","d","i","n","g">>, <<"/","r","e","v","i","e","w">> >>,
      << <<"/","r","e","v","i","e","w">>, <<"/","c","o","m","p","l","e","t","e">> >> }

AllTransitionsAllowed(patterns) ==
    \A k \in 1..(Len(patterns) - 1) :
        <<patterns[k].path, patterns[k + 1].path>> \in AllowedTransitions

PathsOf(patterns) == [k \in 1..Len(patterns) |-> patterns[k].path]

\* C28: for a history of two or more events the navigation factor is
\* 1 - repetition, times 0.7 exactly when some adjacent pair of paths is
\* not a permitted transition; a history whose every adjacent pair is
\* permitted gets no flow penalty.
C28_FlowPenaltyExactly ==
    (Analysed /\ Len(last.seen) >= 2) =>
        LET repetition == calculateRepetition(PathsOf(last.seen))
            unpenalised == QAdd(Q(1, 1), Q(0 - repetition[1], repetition[2]))
        IN  /\ last.analysis.details.navigation # NotComputed
            /\ last.analysis.details.navigation =
                   IF AllTransitionsAllowed(last.seen) THEN unpenalised
                   ELSE QMul(unpenalised, Q(7, 10))


\* what detectBot leaves and returns for a new request object holding
\* request number i at time t, on the store cache
Handled(cache, i, t) ==
    LET r == detectBotResult(cache, legitimateClients, Fresh, i, t)
    IN  [exit |-> r.last.exit,
         verdict |-> r.last.verdict,
         stored |-> IF Has(r.cache, fingerprintOf[i])
                    THEN r.cache[fingerprintOf[i]].patterns ELSE <<>>]

\* C29: a cleanup run changes nothing for the requests that follow it: in
\* every state, a request handled now or later leaves the same stored
\* sequence for its token, and gets the same verdict, whether or not the
\* cleanup has run first.
C29_SweepTransparent ==
    \A i \in DOMAIN Requests, d \in {0} \cup Deltas :
        Handled(sweep(behaviorCache, now), i, now + d)
            = Handled(behaviorCache, i, now + d)


\* C30: in every reachable state every profile in the store has at least
\* one event, and its last-seen time is the timestamp of its last event.
C30_LastSeenIsLastEvent ==
    \A f \in DOMAIN behaviorCache :
        LET patterns == behaviorCache[f].patterns
        IN  /\ patterns # <<>>
            /\ behaviorCache[f].lastSeen = Timestamps(patterns)[Len(patterns)]


\* C31: a call of detectBot that fails with an exception while analyzing
\* its request leaves the profile store exactly as it found it: no event
\* of the failed request stays in a stored profile and no field of a stored
\* profile changes.
C31_ThrowLeavesStore ==
    [][(last'.op = "detectBot" /\ last'.exit = "throw")
       => behaviorCache' = behaviorCache]_vars


\* analyze returned a suspicion count above 1 to detectBot
CountAboveOne == HasConfidence /\ last.analysis.suspicious > 1

\* C32 as stated: whenever the suspicion count computed for a request is
\* above 1 (at least two factors below 0.3), detectBot returns
\* is_bot = true for that request.
C32_CountAboveOneIsBot ==
    CountAboveOne => last.verdict.isBot = TRUE

\* C32 as amended: whenever the suspicion count computed for a request is
\* above 1, detectBot returns is_bot = true for it unless the behavior
\* confidence is at least 0.4 and the environment score at least 40; then
\* it returns is_bot = false.  With a confidence below 0.4 the reason is
\* suspicious_behavior.
C32_CountAboveOneNeedsLowConfidence ==
    CountAboveOne =>
        /\ last.verdict.isBot
               = ~(QLeq(Q(4, 10), last.analysis.confidence) /\ last.score >= 40)
        /\ QLess(last.analysis.confidence, Q(4, 10))
               => last.verdict.reason = "suspicious_behavior"

\* seven requests 10 ms apart, five to /loading and two to /check-ip:
\* timing 0 and navigation 0.4 * 0.7 = 0.28 are both low, the confidence is
\* 0.4 * 0.28 + 0.3 = 0.412 and the request is admitted
C32_Witness ==
    /\ CountAboveOne
    /\ last.analysis.details.timing = Q(0, 1)
    /\ last.analysis.details.navigation = Q(7, 25)
    /\ last.analysis.details.headers = Q(1, 1)
    /\ last.analysis.confidence = Q(103, 250)
    /\ last.exit = "pass"
    /\ last.verdict.isBot = FALSE


\* two consecutive events agree on their language and encoding projections
Agree(p, q) ==
    /\ p.headers.language = q.headers.language
    /\ p.headers.encoding = q.headers.encoding

\* the requests that leave event p under the token f
Producers(f, p) ==
    {k \in DOMAIN HeaderRequests :
        /\ generateFingerprint(HeaderRequests[k]) = f
        /\ getRelevantHeaders(HeaderRequests[k].headers) = p.headers}

\* both requests have the same selected components non-empty, language and
\* encoding among them
SameShape(a, b) ==
    /\ \A n \in 1..Len(Selected(a)) : Truthy(Selected(a)[n]) = Truthy(Selected(b)[n])
    /\ Truthy(a.headers["accept-language"])
    /\ Truthy(a.headers["accept-encoding"])

\* consecutive events of the sequence that came from requests of one shape
\* agree
ShapedPairsAgree(f, patterns) ==
    \A n \in 2..Len(patterns) :
        \A j \in Producers(f, patterns[n - 1]), k \in Producers(f, patterns[n]) :
            SameShape(HeaderRequests[j], HeaderRequests[k])
                => Agree(patterns[n - 1], patterns[n])

\* every consecutive pair of the sequence came from requests of one shape
OneShape(f, patterns) ==
    \A n \in 2..Len(patterns) :
        \A j \in Producers(f, patterns[n - 1]), k \in Producers(f, patterns[n]) :
            SameShape(HeaderRequests[j], HeaderRequests[k])

\* C33 as stated: events stored under one token always agree on their
\* language and encoding projections, so the header-consistency factor is
\* 1 for every reachable profile and never counts towards the suspicion
\* count.
C33_HeaderFactorAlwaysOne ==
    /\ \A f \in DOMAIN behaviorCache :
           \A n \in 2..Len(behaviorCache[f].patterns) :
               Agree(behaviorCache[f].patterns[n - 1], behaviorCache[f].patterns[n])
    /\ HasConfidence =>
           /\ last.analysis.details.headers = Q(1, 1)
           /\ "headers" \notin LowFactors

\* C33 as amended: events stored under one token agree on their language
\* and encoding projections when the requests they came from have the same
\* selected components non-empty, language and encoding among them; the
\* header-consistency factor of a profile of such requests is 1 and does
\* not count towards the suspicion count.
C33_SameShapeAgrees ==
    /\ \A f \in DOMAIN behaviorCache : ShapedPairsAgree(f, behaviorCache[f].patterns)
    /\ (HasConfidence /\ OneShape(last.fingerprint, last.seen)) =>
           /\ last.analysis.details.headers = Q(1, 1)
           /\ "headers" \notin LowFactors

\* a second request with language a and encoding b: the factor is 1
C33_Witness ==
    /\ HasConfidence
    /\ last.req = 4
    /\ Len(last.seen) = 2
    /\ OneShape(last.fingerprint, last.seen)
    /\ Producers(last.fingerprint, last.seen[1]) = {4}
    /\ last.analysis.details.headers = Q(1, 1)


\* C34: for a history of exactly two events the timing factor is never 1:
\* the single interval has standard deviation 0, so the factor is 0.3 when
\* the gap is 50 ms or more and 0 when it is shorter, however long the gap.
C34_TwoEventTiming ==
    (last.op = "analyzeTimingPatterns" /\ Len(last.seen) = 2) =>
        LET gap == last.seen[2].timestamp - last.seen[1].timestamp
        IN  /\ last.analysis.details.timing # Q(1, 1)
            /\ gap >= 50 => last.analysis.details.timing = Q(3, 10)
            /\ gap < 50 => last.analysis.details.timing = Q(0, 1)

\* two events a second apart: 0.3
C34_Witness ==
    /\ last.op = "analyzeTimingPatterns"
    /\ Len(last.seen) = 2
    /\ last.seen[2].timestamp - last.seen[1].timestamp = 1000
    /\ last.analysis.details.timing = Q(3, 10)


\* the handler that ran in this step emitted the event
Emits(event) == \E n \in 1..Len(sent') : sent'[n] = event

\* C35: force-disconnect is a latch.  Once the force_disconnect handler
\* has run, isForceDisconnected stays true, and no handler emits heartbeat
\* or page_change any more, a page change that was waiting at an await
\* when the event arrived included.
C35_ForceDisconnectLatch ==
    [][isForceDisconnected =>
          /\ isForceDisconnected'
          /\ ~Emits("heartbeat")
          /\ ~Emits("page_change")]_vars

=============================================================================
